---------------------------- MODULE Spec2Model ----------------------------
(***************************************************************************)
(* A model of geotools2mapnik.py: the translation of an OGC SLD document   *)
(* into a mapnik map.                                                      *)
(*                                                                         *)
(* Representation.                                                         *)
(*  - A Python string whose characters the code looks at (element text,    *)
(*    the compiled expression, a synthesized style name) is a sequence of  *)
(*    one-character strings.  A string the code only compares for equality *)
(*    (an element's local tag, a CssParameter's name attribute, a ColorMap *)
(*    type attribute, an exception's class) is a TLA+ string.              *)
(*  - None, where a character sequence is expected, is the value NoneT.    *)
(*  - An lxml.objectify element is a record [ns, tag, text, attrib, kids]. *)
(*  - A call that may raise returns [ok |-> TRUE, val |-> v] or            *)
(*    [ok |-> FALSE, err |-> <exception class>].                           *)
(***************************************************************************)
EXTENDS Integers, Sequences, FiniteSets, TLC

VARIABLES
    pc,          \* main: "start", "collect", "loop", "done", "aborted"; "call"/"returned" for a single function call
    options,     \* main's keyword options
    prj,         \* the .prj file next to the shapefile the datasource option names
    root,        \* the SLD document handed to main
    layers,      \* main's local list `layers`
    m,           \* the mapnik.Map under construction
    datasource,  \* main's local `datasource`
    output,      \* what was printed on stdout
    err,         \* the exception that ended the run
    arg,         \* the argument of the single function call under study
    ret          \* its result

vars == <<pc, options, prj, root, layers, m, datasource, output, err, arg, ret>>

-----------------------------------------------------------------------------
(* Bounds of the model *)

MaxLitLen == 3
MaxDepth == 2
MaxArity == 2
MaxDashLen == 7
MaxCss == 2
MaxChildren == 2
MaxLayers == 2
MaxStyles == 3

-----------------------------------------------------------------------------
(* Python values *)

NoneT == <<"<None>">>

Ok(v) == [ok |-> TRUE, val |-> v]

Raise(e) == [ok |-> FALSE, err |-> e]

NoValue == <<"<unset>">>

RECURSIVE Concat(_)
Concat(ss) == IF ss = <<>> THEN <<>> ELSE Head(ss) \o Concat(Tail(ss))

\* sep.join(parts)
RECURSIVE Join(_, _)
Join(sep, parts) ==
    IF parts = <<>> THEN <<>>
    ELSE IF Len(parts) = 1 THEN parts[1]
    ELSE parts[1] \o sep \o Join(sep, Tail(parts))

Whitespace == {" ", "\t", "\n", "\r"}

RECURSIVE LStrip(_)
LStrip(s) == IF s # <<>> /\ Head(s) \in Whitespace THEN LStrip(Tail(s)) ELSE s

RECURSIVE RStrip(_)
RStrip(s) ==
    IF s # <<>> /\ s[Len(s)] \in Whitespace THEN RStrip(SubSeq(s, 1, Len(s) - 1)) ELSE s

\* s.strip()
Strip(s) == RStrip(LStrip(s))

\* s.split(c): always at least one piece, empty pieces kept
RECURSIVE SplitAcc(_, _, _)
SplitAcc(s, c, cur) ==
    IF s = <<>> THEN <<cur>>
    ELSE IF Head(s) = c THEN <<cur>> \o SplitAcc(Tail(s), c, <<>>)
    ELSE SplitAcc(Tail(s), c, Append(cur, Head(s)))

Split(s, c) == SplitAcc(s, c, <<>>)

\* s.startswith(c) for a one-character c
StartsWith(s, c) == s # <<>> /\ Head(s) = c

Digits == {"0", "1", "2", "3", "4", "5", "6", "7", "8", "9"}

DigitVal(c) ==
    CASE c = "0" -> 0 [] c = "1" -> 1 [] c = "2" -> 2 [] c = "3" -> 3 [] c = "4" -> 4
      [] c = "5" -> 5 [] c = "6" -> 6 [] c = "7" -> 7 [] c = "8" -> 8 [] c = "9" -> 9

DigitChar(d) == <<"0", "1", "2", "3", "4", "5", "6", "7", "8", "9">>[d + 1]

\* str(n) for an int n >= 0
RECURSIVE IntToStr(_)
IntToStr(n) == IF n < 10 THEN <<DigitChar(n)>> ELSE IntToStr(n \div 10) \o <<DigitChar(n % 10)>>

RECURSIVE LeadingDigits(_)
LeadingDigits(s) ==
    IF s # <<>> /\ Head(s) \in Digits THEN 1 + LeadingDigits(Tail(s)) ELSE 0

RECURSIVE DigitsVal(_)
DigitsVal(s) == IF s = <<>> THEN 0 ELSE DigitsVal(SubSeq(s, 1, Len(s) - 1)) * 10 + DigitVal(s[Len(s)])

Lower(c) ==
    CASE c = "I" -> "i" [] c = "N" -> "n" [] c = "F" -> "f" [] c = "T" -> "t"
      [] c = "Y" -> "y" [] c = "A" -> "a" [] OTHER -> c

LowerStr(s) == [i \in 1..Len(s) |-> Lower(s[i])]

RECURSIVE Pow10(_)
Pow10(n) == IF n <= 0 THEN 1 ELSE 10 * Pow10(n - 1)

\* A finite float is mant * 10^exp, with mant not divisible by 10 (0 is 0 * 10^0).
RECURSIVE Normal(_, _)
Normal(mant, exp) ==
    IF mant = 0 THEN [mant |-> 0, exp |-> 0, special |-> "finite"]
    ELSE IF mant % 10 = 0 THEN Normal(mant \div 10, exp + 1)
    ELSE [mant |-> mant, exp |-> exp, special |-> "finite"]

\* v bound to a name: F(v), with v evaluated once
Let(v, F(_)) == CHOOSE r \in {F(b) : b \in {v}} : TRUE

\* the exponent part of a float: empty, or e or E, an optional sign and digits
float_exponent(rest) ==
    IF rest = <<>> THEN Ok(0)
    ELSE IF Head(rest) \notin {"e", "E"} \/ Len(rest) < 2 THEN Raise("ValueError")
    ELSE Let(IF rest[2] \in {"+", "-"} THEN SubSeq(rest, 3, Len(rest)) ELSE Tail(rest),
             LAMBDA ds : IF ds = <<>> \/ LeadingDigits(ds) # Len(ds) THEN Raise("ValueError")
                         ELSE Ok((IF rest[2] = "-" THEN -1 ELSE 1) * DigitsVal(ds)))

\* digits, an optional point with digits (a digit on one side at least), an exponent
float_decimal(sgn, u) ==
    Let(LeadingDigits(u), LAMBDA ni :
    Let(IF ni < Len(u) /\ u[ni + 1] = "." THEN 1 ELSE 0, LAMBDA point :
    Let(IF point = 1 THEN LeadingDigits(SubSeq(u, ni + 2, Len(u))) ELSE 0, LAMBDA nf :
    Let(float_exponent(SubSeq(u, ni + point + nf + 1, Len(u))), LAMBDA ex :
        IF ni + nf = 0 \/ ~ex.ok THEN Raise("ValueError")
        ELSE Ok(Normal(sgn * DigitsVal(SubSeq(u, 1, ni) \o SubSeq(u, ni + 2, ni + 1 + nf)),
                       ex.val - nf))))))

float_unsigned(sgn, u) ==
    IF LowerStr(u) \in {<<"i", "n", "f">>, <<"i", "n", "f", "i", "n", "i", "t", "y">>}
    THEN Ok([mant |-> sgn, exp |-> 0, special |-> "inf"])
    ELSE IF LowerStr(u) = <<"n", "a", "n">>
    THEN Ok([mant |-> 0, exp |-> 0, special |-> "nan"])
    ELSE float_decimal(sgn, u)

\* float(s) for a str s: surrounding whitespace is dropped, then an optional
\* sign, then inf, infinity or nan, or a decimal.  ValueError otherwise.
float(s) ==
    Let(Strip(s), LAMBDA t :
        IF t # <<>> /\ Head(t) \in {"+", "-"}
        THEN Let(Tail(t), LAMBDA u : float_unsigned(IF Head(t) = "-" THEN -1 ELSE 1, u))
        ELSE float_unsigned(1, t))

\* "%s" % x for a str or None x
Fmt(x) == IF x = NoneT THEN <<"N", "o", "n", "e">> ELSE x

-----------------------------------------------------------------------------
(* lxml.objectify elements *)

El(ns, tag, text, attrib, kids) ==
    [ns |-> ns, tag |-> tag, text |-> text, attrib |-> attrib, kids |-> kids]

NoAttrib == <<>>

\* node.Child as an iterable: the children with that tag in the node's namespace
Children(node, tag) == SelectSeq(node.kids, LAMBDA k : k.tag = tag /\ k.ns = node.ns)

\* hasattr(node, tag)
HasChild(node, tag) == Children(node, tag) # <<>>

\* node.Child: the first such child, AttributeError when there is none
Child(node, tag) ==
    IF HasChild(node, tag) THEN Ok(Children(node, tag)[1]) ELSE Raise("AttributeError")

\* node.find("{<ogc namespace>}tag"): the first child with that qualified tag
Find(node, ns, tag) ==
    LET found == SelectSeq(node.kids, LAMBDA k : k.tag = tag /\ k.ns = ns)
    IN  IF found = <<>> THEN <<>> ELSE <<found[1]>>

\* node.attrib.get(key, default)
Get(node, key, default) ==
    IF key \in DOMAIN node.attrib THEN node.attrib[key] ELSE default

\* the key words of the dispatch that occur in a local tag name (`kw in tag`);
\* the namespace part of a qualified tag of SLD or OGC holds none of them
KeyWords(tag) ==
    CASE tag = "And" -> {"And"}
      [] tag = "Or" -> {"Or"}
      [] tag = "PropertyIsGreaterThan" -> {"PropertyIsGreaterThan"}
      [] tag = "PropertyIsLessThan" -> {"PropertyIsLessThan"}
      [] tag = "PropertyIsEqualTo" -> {"PropertyIsEqualTo"}
      [] tag = "PropertyIsNotEqualTo" -> {"PropertyIsNotEqualTo"}
      [] tag = "PropertyIsGreaterThanOrEqualTo" -> {"Or", "PropertyIsGreaterThan"}
      [] tag = "PropertyIsLessThanOrEqualTo" -> {"Or", "PropertyIsLessThan"}
      [] tag = "PropertyIsBetween" -> {"PropertyIsBetween"}
      [] tag = "Literal" -> {"Literal"}
      [] tag = "PropertyName" -> {"PropertyName"}
      [] tag \in {"LineSymbolizer", "PolygonSymbolizer", "PointSymbolizer",
                  "TextSymbolizer", "RasterSymbolizer", "ImageSymbolizer"} -> {"Symbolizer"}
      [] OTHER -> {}

Contains(tag, kw) == kw \in KeyWords(tag)

-----------------------------------------------------------------------------
(* The expression compiler *)

\* is_number(s); float(None) raises TypeError, which the except clause does not catch
is_number(s) ==
    IF StartsWith(Fmt(s), "0") THEN Ok(FALSE)
    ELSE IF s = NoneT THEN Raise("TypeError")
    ELSE Ok(float(s).ok)

_translate_literal_or_property_name(e) ==
    IF Contains(e.tag, "Literal")
    THEN Let(is_number(e.text), LAMBDA n :
             IF ~n.ok THEN n
             ELSE IF n.val THEN Ok(Fmt(e.text))
             ELSE Ok(<<"'">> \o Fmt(e.text) \o <<"'">>))
    ELSE IF Contains(e.tag, "PropertyName")
    THEN Ok(<<"[">> \o Fmt(e.text) \o <<"]">>)
    ELSE Raise("AssertionError")

\* the results of a loop of calls: the list of their values, or the first exception
FirstError(rs) ==
    IF \A i \in 1..Len(rs) : rs[i].ok THEN Ok([i \in 1..Len(rs) |-> rs[i].val])
    ELSE rs[CHOOSE i \in 1..Len(rs) : ~rs[i].ok /\ \A j \in 1..(i - 1) : rs[j].ok]

\* map(F, nodes), used at once
Map(nodes, F(_)) == Let(<<>> \o [i \in 1..Len(nodes) |-> Let(nodes[i], F)], FirstError)

_compile_bin_op(operator, arg_nodes) ==
    Let(Map(arg_nodes, _translate_literal_or_property_name), LAMBDA ops :
        IF ~ops.ok THEN ops
        ELSE IF Len(ops.val) # 2 THEN Raise("AssertionError")
        ELSE Ok(ops.val[1] \o <<" ">> \o operator \o <<" ">> \o ops.val[2]))

\* prop.<Lower|Upper>Boundary.Literal
BoundaryLiteral(prop, tag) ==
    Let(Child(prop, tag), LAMBDA bound : IF bound.ok THEN Child(bound.val, "Literal") ELSE bound)

PropertyIsBetween_to_expression(prop) ==
    Let(Child(prop, "PropertyName"), LAMBDA name :
    IF ~name.ok THEN name ELSE
    Let(BoundaryLiteral(prop, "LowerBoundary"), LAMBDA lo :
    IF ~lo.ok THEN lo ELSE
    Let(_compile_bin_op(<<">">>, <<name.val, lo.val>>), LAMBDA cql_lo :
    IF ~cql_lo.ok THEN cql_lo ELSE
    Let(BoundaryLiteral(prop, "UpperBoundary"), LAMBDA hi :
    IF ~hi.ok THEN hi ELSE
    Let(_compile_bin_op(<<"<">>, <<name.val, hi.val>>), LAMBDA cql_hi :
    IF ~cql_hi.ok THEN cql_hi
    ELSE Ok(cql_lo.val \o <<"a", "n", "d", " ">> \o cql_hi.val))))))

\* the operator of a comparison tag, <<>> for any other tag
ComparisonOperator(tag) ==
    IF Contains(tag, "PropertyIsGreaterThan") THEN <<">">>
    ELSE IF Contains(tag, "PropertyIsLessThan") THEN <<"<">>
    ELSE IF Contains(tag, "PropertyIsEqualTo") THEN <<"=">>
    ELSE IF Contains(tag, "PropertyIsNotEqualTo") THEN <<"!", "=">>
    ELSE <<>>

RECURSIVE _ogc_filter_to_expression(_)
_ogc_filter_to_expression(prop) ==
    IF Contains(prop.tag, "And") \/ Contains(prop.tag, "Or")
    THEN Let(Map(prop.kids, _ogc_filter_to_expression), LAMBDA sub :
             IF ~sub.ok THEN sub
             ELSE Ok(Join(IF Contains(prop.tag, "And") THEN <<" ", "a", "n", "d", " ">>
                          ELSE <<" ", "o", "r", " ">>, sub.val)))
    ELSE IF ComparisonOperator(prop.tag) # <<>>
    THEN _compile_bin_op(ComparisonOperator(prop.tag), prop.kids)
    ELSE IF Contains(prop.tag, "PropertyIsBetween")
    THEN PropertyIsBetween_to_expression(prop)
    ELSE Raise("AssertionError")

\* mapnik.Expression(str(cql)), or mapnik.Filter for an old mapnik: the
\* library object is modelled by the string it was built from
ogc_filter_to_mapnik(ogc_filter) ==
    IF ogc_filter.kids = <<>> THEN Raise("IndexError")
    ELSE Let(ogc_filter.kids[1], _ogc_filter_to_expression)

-----------------------------------------------------------------------------
(* The symbolizer translators *)

\* float(x) for an element text or attribute value x: None is a TypeError
pyfloat(x) == IF x = NoneT THEN Raise("TypeError") ELSE float(x)

\* mapnik.Color(text): the library's colour is modelled by the string it was
\* built from; None is not a string
Color(text) == IF text = NoneT THEN Raise("ArgumentError") ELSE Ok(text)

Float(n) == Normal(n, 0)

get_cap(cap) ==
    IF cap = <<"s", "q", "u", "a", "r", "e">> THEN "SQUARE_CAP"
    ELSE IF cap = <<"f", "l", "a", "t">> THEN "BUTT_CAP"
    ELSE "ROUND_CAP"

get_join(join) ==
    IF join = <<"b", "e", "v", "e", "l">> THEN "BEVEL_JOIN"
    ELSE IF join = <<"r", "o", "u", "n", "d">> THEN "ROUND_JOIN"
    ELSE "MITER_JOIN"

\* mapnik.Stroke()
NewStroke ==
    [color |-> <<"b", "l", "a", "c", "k">>, width |-> Float(1), opacity |-> Float(1),
     dashes |-> <<>>, line_cap |-> "BUTT_CAP", line_join |-> "MITER_JOIN",
     dash_offset |-> Float(0)]

\* the (on, off) pairs of a list of an even number of dashes
DashPairs(dashes) == [i \in 1..(Len(dashes) \div 2) |-> <<dashes[2 * i - 1], dashes[2 * i]>>]

\* stroke_dasharray without the assertion on the number of dashes
stroke_dasharray_unasserted(m_stroke, text) ==
    IF text = NoneT THEN Raise("AttributeError")
    ELSE Let(Split(Strip(text), " "), LAMBDA entries :
         Let(Map(entries, float), LAMBDA dashes :
             IF ~dashes.ok THEN dashes
             ELSE Ok([m_stroke EXCEPT !.dashes = @ \o DashPairs(dashes.val)])))

\* the stroke-dasharray branch of stroke_to_mapnik
stroke_dasharray(m_stroke, text) ==
    IF text = NoneT THEN Raise("AttributeError")
    ELSE Let(Split(Strip(text), " "), LAMBDA entries :
         Let(Map(entries, float), LAMBDA dashes :
             IF ~dashes.ok THEN dashes
             ELSE IF Len(dashes.val) % 2 # 0 THEN Raise("AssertionError")
             ELSE Ok([m_stroke EXCEPT !.dashes = @ \o DashPairs(dashes.val)])))

\* m_stroke with one field set to a value that may have raised
SetField(rec, field, r) == IF r.ok THEN Ok([rec EXCEPT ![field] = r.val]) ELSE r

\* the body of the loop of stroke_to_mapnik
stroke_css(m_stroke, css) ==
    Let(Get(css, "name", "<None>"), LAMBDA name :
        IF name = "stroke" THEN SetField(m_stroke, "color", Color(css.text))
        ELSE IF name = "stroke-width" THEN SetField(m_stroke, "width", pyfloat(css.text))
        ELSE IF name = "stroke-opacity" THEN SetField(m_stroke, "opacity", pyfloat(css.text))
        ELSE IF name = "stroke-dasharray" THEN stroke_dasharray(m_stroke, css.text)
        ELSE IF name = "stroke-linecap" THEN Ok([m_stroke EXCEPT !.line_cap = get_cap(css.text)])
        ELSE IF name = "stroke-join" THEN Ok([m_stroke EXCEPT !.line_join = get_join(css.text)])
        ELSE IF name = "stroke-linejoin" THEN Ok([m_stroke EXCEPT !.line_join = get_join(css.text)])
        ELSE IF name = "stroke-dashoffset" THEN SetField(m_stroke, "dash_offset", pyfloat(css.text))
        ELSE IF name = "<None>" THEN Raise("TypeError")
        ELSE Raise("Exception"))

\* a for loop over nodes that updates acc by Step and stops at the first exception
Loop(acc, nodes, Step(_, _)) ==
    LET after[i \in 0..Len(nodes)] ==
            IF i = 0 THEN Ok(acc)
            ELSE Let(after[i - 1], LAMBDA r : IF ~r.ok THEN r ELSE Step(r.val, nodes[i]))
    IN  after[Len(nodes)]

stroke_to_mapnik(stroke) ==
    IF ~HasChild(stroke, "CssParameter") THEN Raise("AttributeError")
    ELSE Loop(NewStroke, Children(stroke, "CssParameter"), stroke_css)

LineSymbolizer(m_stroke) == [type |-> "LineSymbolizer", stroke |-> m_stroke]

ogc_LineSymbolyzer_to_mapnik(sym) ==
    Let(Child(sym, "Stroke"), LAMBDA stroke :
        IF ~stroke.ok THEN stroke
        ELSE Let(Let(stroke.val, stroke_to_mapnik), LAMBDA m_stroke :
                 IF ~m_stroke.ok THEN m_stroke ELSE Ok(<<LineSymbolizer(m_stroke.val)>>)))

\* mapnik.PolygonSymbolizer()
NewPolygonSymbolizer ==
    [type |-> "PolygonSymbolizer", fill |-> <<"g", "r", "e", "y">>, opacity |-> Float(1)]

\* the body of the Fill loop of ogc_PolygonSymbolizer_to_mapnik
polygon_fill_css(m_poly, css) ==
    Let(Get(css, "name", "<None>"), LAMBDA name :
        IF name = "fill" THEN SetField(m_poly, "fill", Color(css.text))
        ELSE IF name = "fill-opacity" THEN SetField(m_poly, "opacity", pyfloat(css.text))
        ELSE IF name = "<None>" THEN Raise("TypeError")
        ELSE Raise("Exception"))

\* the Fill part of ogc_PolygonSymbolizer_to_mapnik
polygon_fill(sym) ==
    IF ~HasChild(sym, "Fill") THEN Ok(NewPolygonSymbolizer)
    ELSE Let(Children(sym, "Fill")[1], LAMBDA fill :
             IF ~HasChild(fill, "CssParameter") THEN Raise("AttributeError")
             ELSE Loop(NewPolygonSymbolizer, Children(fill, "CssParameter"), polygon_fill_css))

ogc_PolygonSymbolizer_to_mapnik(sym) ==
    Let(polygon_fill(sym), LAMBDA m_poly :
        IF ~m_poly.ok THEN m_poly
        ELSE IF ~HasChild(sym, "Stroke") THEN Ok(<<m_poly.val>>)
        ELSE Let(Let(Children(sym, "Stroke")[1], stroke_to_mapnik), LAMBDA m_stroke :
                 IF ~m_stroke.ok THEN m_stroke
                 ELSE Ok(<<LineSymbolizer(m_stroke.val), m_poly.val>>)))

ogc_PointSymbolizer_to_mapnik(sym) == Ok(<<[type |-> "PointSymbolizer"]>>)

\* the names bound at module level when the module runs as a script
ModuleGlobals ==
    {"os", "sys", "optparse", "tempfile", "shlex", "logging", "mapnik", "etree",
     "objectify", "log", "FIX_HEX", "proj4_from_osr", "rgb_to_hex", "is_number",
     "name2expr", "fixup_pointsym", "get_cap", "get_join", "_ogc_filter_to_expression",
     "_compile_bin_op", "_translate_literal_or_property_name", "ogc_filter_to_mapnik",
     "stroke_to_mapnik", "fix_colors", "main", "ogc_layer_to_mapnik", "ogc_rule_to_mapnik",
     "_translators", "translates_sld", "_sld_tag", "get_translator",
     "ogc_LineSymbolyzer_to_mapnik", "ogc_PolygonSymbolizer_to_mapnik",
     "ogc_PointSymbolizer_to_mapnik", "ogc_TextSymbolizer_to_mapnik",
     "ogc_RasterSymbolizer_to_mapnik", "parser", "options", "args", "xml", "tree", "root"}

\* the names a function binds: its parameters and the targets of its assignments
LocalsOf(function) ==
    CASE function = "main" ->
             {"root", "options", "m", "datasource", "shp_dir", "name", "srs", "layers",
              "layer", "m_layer", "styles", "style", "handle", "path", "tree"}
      [] function = "ogc_TextSymbolizer_to_mapnik" ->
             {"text", "name", "face_name", "size", "css", "color", "m_text", "h"}

\* whether a name read in a function is bound: a local, else a global, else NameError
NameIsBound(function, name) == name \in LocalsOf(function) \cup ModuleGlobals

\* the first whitespace-delimited token of a label, shlex.split(label)[0]
FirstToken(label) ==
    Let(SelectSeq(Split(Fmt(label), " "), LAMBDA w : w # <<>>), LAMBDA words :
        IF words = <<>> THEN Raise("IndexError") ELSE Ok(words[1]))

\* the last value a loop over CssParameters assigns for the parameter `key`
LastCss(node, key, default) ==
    Let(SelectSeq(Children(node, "CssParameter"), LAMBDA css : Get(css, "name", "<None>") = key),
        LAMBDA found : IF found = <<>> THEN default ELSE found[Len(found)].text)

\* ogc_TextSymbolizer_to_mapnik once `name` is known
text_symbolizer(text, name) ==
    IF ~HasChild(text, "Font") \/ ~HasChild(text, "Fill") THEN Raise("AttributeError")
    ELSE Let(Children(text, "Font")[1], LAMBDA font :
         Let(Children(text, "Fill")[1], LAMBDA fill :
             IF ~HasChild(font, "CssParameter") \/ ~HasChild(fill, "CssParameter")
             THEN Raise("AttributeError")
             ELSE Ok(<<[type |-> "TextSymbolizer",
                        name |-> <<"[">> \o name \o <<"]">>,
                        face_name |-> LastCss(font, "font-family", <<"D", "e", "j", "a", "V", "u">>),
                        size |-> LastCss(font, "font-size", <<"1", "0">>),
                        fill |-> LastCss(fill, "fill", <<"b", "l", "a", "c", "k">>),
                        line_placement |->
                            /\ HasChild(text, "LabelPlacement")
                            /\ HasChild(Children(text, "LabelPlacement")[1], "LinePlacement"),
                        halo |-> Children(text, "Halo")]>>)))

\* the first statement reads text.Label and then the name `rule`, which
\* the function does not bind and the module does not define
ogc_TextSymbolizer_to_mapnik(text) ==
    IF ~HasChild(text, "Label") THEN Raise("AttributeError")
    ELSE IF ~NameIsBound("ogc_TextSymbolizer_to_mapnik", "rule") THEN Raise("NameError")
    ELSE Let(Children(text, "Label")[1], LAMBDA label :
             IF Find(label, "ogc", "PropertyName") # <<>>
             THEN text_symbolizer(text, Fmt(Find(label, "ogc", "PropertyName")[1].text))
             ELSE Let(FirstToken(label.text), LAMBDA name :
                      IF ~name.ok THEN name ELSE text_symbolizer(text, name.val)))

\* int(f * 255) for a float f
int_times_255(f) ==
    IF f.special = "inf" THEN Raise("OverflowError")
    ELSE IF f.special = "nan" THEN Raise("ValueError")
    ELSE IF f.exp >= 0 THEN Ok(f.mant * 255 * Pow10(f.exp))
    ELSE IF f.mant >= 0 THEN Ok((f.mant * 255) \div Pow10(-f.exp))
    ELSE Ok(-((-f.mant * 255) \div Pow10(-f.exp)))

\* the body of the ColorMapEntry loop of ogc_RasterSymbolizer_to_mapnik
raster_stop(stops, c) ==
    IF "color" \notin DOMAIN c.attrib THEN Raise("KeyError")
    ELSE Let(pyfloat(Get(c, "opacity", <<"1">>)), LAMBDA opacity :
         IF ~opacity.ok THEN opacity ELSE
         Let(int_times_255(opacity.val), LAMBDA alpha :
         IF ~alpha.ok THEN alpha
         ELSE IF "quantity" \notin DOMAIN c.attrib THEN Raise("KeyError") ELSE
         Let(pyfloat(c.attrib["quantity"]), LAMBDA value :
         IF ~value.ok THEN value
         ELSE Ok(Append(stops, [value |-> value.val, mode |-> "COLORIZER_INHERIT",
                                color |-> c.attrib["color"], a |-> alpha.val,
                                label |-> Get(c, "label", <<>>)])))))

\* type_map[type]
ColorizerMode(type) ==
    CASE type = "ramp" -> Ok("COLORIZER_LINEAR")
      [] type = "intervals" -> Ok("COLORIZER_DISCRETE")
      [] type = "values" -> Ok("COLORIZER_EXACT")
      [] OTHER -> Raise("KeyError")

ogc_RasterSymbolizer_to_mapnik(sym) ==
    IF ~HasChild(sym, "ColorMap") THEN Ok(<<>>)
    ELSE Let(Children(sym, "ColorMap")[1], LAMBDA ColorMap :
         Let(ColorizerMode(Get(ColorMap, "type", "ramp")), LAMBDA mode :
             IF ~mode.ok THEN mode
             ELSE IF ~HasChild(ColorMap, "ColorMapEntry") THEN Raise("AttributeError")
             ELSE Let(Loop(<<>>, Children(ColorMap, "ColorMapEntry"), raster_stop), LAMBDA stops :
                      IF ~stops.ok THEN stops
                      ELSE Ok(<<[type |-> "RasterSymbolizer",
                                 colorizer |-> [mode |-> mode.val,
                                                color |-> <<"t", "r", "a", "n", "s", "p", "a", "r", "e", "n", "t">>,
                                                stops |-> stops.val]]>>))))

\* the tags registered by @translates_sld, all in the SLD namespace
_translators ==
    {"LineSymbolizer", "PolygonSymbolizer", "PointSymbolizer", "TextSymbolizer",
     "RasterSymbolizer"}

\* get_translator looking the local tag name up, whatever its namespace
get_translator_by_local_name(node) == node.tag \in _translators

\* _translators.get(node.tag): whether a translator is registered for the qualified tag
get_translator(node) == node.ns = "sld" /\ node.tag \in _translators

\* translator(possible_sym), consumed to its end by syms.extend
Translate(sym) ==
    CASE sym.tag = "LineSymbolizer" -> ogc_LineSymbolyzer_to_mapnik(sym)
      [] sym.tag = "PolygonSymbolizer" -> ogc_PolygonSymbolizer_to_mapnik(sym)
      [] sym.tag = "PointSymbolizer" -> ogc_PointSymbolizer_to_mapnik(sym)
      [] sym.tag = "TextSymbolizer" -> ogc_TextSymbolizer_to_mapnik(sym)
      [] sym.tag = "RasterSymbolizer" -> ogc_RasterSymbolizer_to_mapnik(sym)

-----------------------------------------------------------------------------
(* The rule, layer and map assemblers *)

\* the body of the symbolizer loop of ogc_rule_to_mapnik
rule_child(syms, possible_sym) ==
    IF ~Contains(possible_sym.tag, "Symbolizer") THEN Ok(syms)
    ELSE IF ~get_translator(possible_sym) THEN Ok(syms)
    ELSE Let(Translate(possible_sym), LAMBDA yielded :
             IF ~yielded.ok THEN yielded ELSE Ok(syms \o yielded.val))

\* float(rule.<Max|Min>ScaleDenominator) when the rule has that child
ScaleDenominator(rule, tag, default) ==
    IF HasChild(rule, tag) THEN pyfloat(Children(rule, tag)[1].text) ELSE Ok(default)

\* str(getattr(node, 'Name', default))
NameOr(node, default) ==
    IF HasChild(node, "Name")
    THEN Let(Children(node, "Name")[1].text, LAMBDA t : IF t = NoneT THEN <<>> ELSE t)
    ELSE default

\* rule_filter with the test for ElseFilter outside the else branch
rule_filter_else_unnested(rule) ==
    IF "ogc" \notin Get(rule, "nsmap", {}) THEN Raise("KeyError")
    ELSE Let(Find(rule, "ogc", "Filter"), LAMBDA ogc_filter :
             IF ogc_filter # <<>>
             THEN Let(Let(ogc_filter[1], ogc_filter_to_mapnik), LAMBDA filter :
                      IF ~filter.ok THEN filter
                      ELSE Ok([filter |-> filter.val, else_filter |-> HasChild(rule, "ElseFilter")]))
             ELSE Ok([filter |-> NoneT, else_filter |-> HasChild(rule, "ElseFilter")]))

\* the filter part of ogc_rule_to_mapnik: the rule's filter and else flag
rule_filter(rule) ==
    IF "ogc" \notin Get(rule, "nsmap", {}) THEN Raise("KeyError")
    ELSE Let(Find(rule, "ogc", "Filter"), LAMBDA ogc_filter :
             IF ogc_filter # <<>>
             THEN Let(Let(ogc_filter[1], ogc_filter_to_mapnik), LAMBDA filter :
                      IF ~filter.ok THEN filter
                      ELSE Ok([filter |-> filter.val, else_filter |-> FALSE]))
             ELSE Ok([filter |-> NoneT, else_filter |-> HasChild(rule, "ElseFilter")]))

ogc_rule_to_mapnik(rule) ==
    Let(rule_filter(rule), LAMBDA f :
    IF ~f.ok THEN f ELSE
    Let(ScaleDenominator(rule, "MaxScaleDenominator", [mant |-> 1, exp |-> 0, special |-> "inf"]),
        LAMBDA max_scale :
    IF ~max_scale.ok THEN max_scale ELSE
    Let(ScaleDenominator(rule, "MinScaleDenominator", Float(0)), LAMBDA min_scale :
    IF ~min_scale.ok THEN min_scale ELSE
    Let(Loop(<<>>, rule.kids, rule_child), LAMBDA syms :
    IF ~syms.ok THEN syms
    ELSE Ok([name |-> NameOr(rule, <<>>), filter |-> f.val.filter,
             else_filter |-> f.val.else_filter, max_scale |-> max_scale.val,
             min_scale |-> min_scale.val, symbols |-> syms.val])))))

\* bool(x) of an element's text: objectify reads a Name as a string, true when
\* it is not empty (the names of the model are not numbers)
Truthy(text) == text # NoneT /\ text # <<>>

\* getattr(node, 'Name', None): the text of the Name child, None without one
NameOf(node) == IF HasChild(node, "Name") THEN Children(node, "Name")[1].text ELSE NoneT

\* mapnik.Layer(name); a layer's srs is the library's default until set
DefaultSrs == <<"+", "p", "r", "o", "j", "=", "l", "a", "t", "l", "o", "n", "g">>

NewLayer(name) == [name |-> name, styles |-> <<>>, datasource |-> NoValue, srs |-> DefaultSrs]

\* str(getattr(layer, 'Name', None) or 'Layer')
layer_name(layer) ==
    Let(NameOf(layer), LAMBDA n : IF Truthy(n) THEN n ELSE <<"L", "a", "y", "e", "r">>)

\* sty_name of ogc_layer_to_mapnik: the style's Name, else '%s %s' % (m_layer.name, str(idx))
feature_style_name(m_layer_name, feature_style, idx) ==
    Let(NameOf(feature_style), LAMBDA sty_name :
        IF ~Truthy(sty_name) THEN m_layer_name \o <<" ">> \o IntToStr(idx) ELSE sty_name)

\* the body of the loop over feature_style.Rule
style_rule(m_sty, rule) ==
    Let(ogc_rule_to_mapnik(rule), LAMBDA m_rule :
        IF ~m_rule.ok THEN m_rule ELSE Ok([rules |-> Append(m_sty.rules, m_rule.val)]))

\* the body of the loop over user_style.FeatureTypeStyle; acc holds the locals
\* idx, m_layer and styles of ogc_layer_to_mapnik
feature_style_step(acc, feature_style) ==
    Let(feature_style_name(acc.m_layer.name, feature_style, acc.idx), LAMBDA sty_name :
        IF ~HasChild(feature_style, "Rule") THEN Raise("AttributeError")
        ELSE Let(Loop([rules |-> <<>>], Children(feature_style, "Rule"), style_rule), LAMBDA m_sty :
                 IF ~m_sty.ok THEN m_sty
                 ELSE Ok([idx |-> acc.idx + 1,
                          m_layer |-> [acc.m_layer EXCEPT !.styles = Append(@, sty_name)],
                          styles |-> Append(acc.styles, <<sty_name, m_sty.val>>)])))

\* the body of the loop over layer.UserStyle
user_style_step(acc, user_style) ==
    IF ~HasChild(user_style, "FeatureTypeStyle") THEN Raise("AttributeError")
    ELSE Loop(acc, Children(user_style, "FeatureTypeStyle"), feature_style_step)

ogc_layer_to_mapnik(layer) ==
    IF ~HasChild(layer, "UserStyle") THEN Raise("AttributeError")
    ELSE Let(Loop([idx |-> 0, m_layer |-> NewLayer(layer_name(layer)), styles |-> <<>>],
                  Children(layer, "UserStyle"), user_style_step), LAMBDA done :
             IF ~done.ok THEN done
             ELSE Ok([m_layer |-> done.val.m_layer, styles |-> done.val.styles]))

FIX_HEX == FALSE

\* s.endswith('shp')
EndsWithShp(s) == Len(s) >= 3 /\ SubSeq(s, Len(s) - 2, Len(s)) = <<"s", "h", "p">>

\* the value of a name that is no local of the running function: the module's
\* global of that name when the script runs, NameError when there is none
GlobalValue(name) ==
    IF name \notin ModuleGlobals THEN Raise("NameError")
    ELSE IF name = "options" THEN Ok(options)
    ELSE IF name = "root" THEN Ok(root)
    ELSE Ok(NoValue)

\* proj4_from_osr(shp_dir), given the .prj file at shp_dir + '.prj': a file
\* is missing, or holds a projection osr exports at once (proj4), exports
\* after MorphFromESRI (morphed), or does not export
proj4_from_osr(file) ==
    IF ~file.exists THEN NoneT
    ELSE Let(IF file.proj4 = <<>> THEN file.morphed ELSE file.proj4, LAMBDA proj4 :
             IF proj4 # <<>> THEN proj4 ELSE NoneT)

\* mapnik.Map(1, 1)
NewMap == [srs |-> DefaultSrs, styles |-> <<>>, layers |-> <<>>]

\* mapnik.Shapefile(file=shp_dir)
Shapefile(path) == <<"Shapefile", path>>

\* datasource.split('.shp')[0] for a path that ends with 'shp' and holds '.shp' at most at its end
SplitShp(path) ==
    IF Len(path) >= 4 /\ path[Len(path) - 3] = "." THEN SubSeq(path, 1, Len(path) - 4) ELSE path

\* m.append_style(name, style): a name the map has keeps its style
append_style(styles, named) ==
    IF \E i \in 1..Len(styles) : styles[i][1] = named[1] THEN Ok(styles) ELSE Ok(Append(styles, named))

\* m_layer.datasource = datasource: the attribute takes a mapnik datasource
\* and nothing else, the binding raises Boost.Python's ArgumentError for a str
set_datasource(m_layer, ds) ==
    IF ds = NoneT \/ ds = <<>> THEN Ok(m_layer)
    ELSE IF ds[1] = "Shapefile" THEN Ok([m_layer EXCEPT !.datasource = ds])
    ELSE Raise("ArgumentError")

\* main's loop body that goes on after a layer that failed, with an empty layer for it
main_layer_best_effort(map, ds, layer) ==
    Let(ogc_layer_to_mapnik(layer), LAMBDA translated :
        IF ~translated.ok THEN Ok([map EXCEPT !.layers = Append(@, NewLayer(<<>>))])
        ELSE Let(Loop(map.styles, translated.val.styles, append_style), LAMBDA styles :
             Let(set_datasource(translated.val.m_layer, ds), LAMBDA m_layer :
                 IF ~m_layer.ok
                 THEN [ok |-> FALSE, err |-> m_layer.err, val |-> [map EXCEPT !.styles = styles.val]]
                 ELSE Ok([srs |-> map.srs, styles |-> styles.val,
                          layers |-> Append(map.layers, [m_layer.val EXCEPT !.srs = map.srs])]))))

\* the body of main's loop over the layers: the map after one more layer, or
\* the exception raised and the map as it was left
main_layer(map, ds, layer) ==
    Let(ogc_layer_to_mapnik(layer), LAMBDA translated :
        IF ~translated.ok THEN [ok |-> FALSE, err |-> translated.err, val |-> map]
        ELSE Let(Loop(map.styles, translated.val.styles, append_style), LAMBDA styles :
             Let(set_datasource(translated.val.m_layer, ds), LAMBDA m_layer :
                 IF ~m_layer.ok
                 THEN [ok |-> FALSE, err |-> m_layer.err, val |-> [map EXCEPT !.styles = styles.val]]
                 ELSE Ok([srs |-> map.srs, styles |-> styles.val,
                          layers |-> Append(map.layers, [m_layer.val EXCEPT !.srs = map.srs])]))))

\* mapnik.save_map_to_string(m): the XML document of the map
save_map_to_string(map) ==
    [xml |-> "Map", srs |-> map.srs,
     Style |-> [i \in 1..Len(map.styles) |-> [name |-> map.styles[i][1], Rule |-> map.styles[i][2].rules]],
     Layer |-> [i \in 1..Len(map.layers) |->
                   [name |-> map.layers[i].name, srs |-> map.layers[i].srs,
                    StyleName |-> map.layers[i].styles, Datasource |-> map.layers[i].datasource]]]

-----------------------------------------------------------------------------
(* Inputs of the expression compiler *)

\* every string of at most n characters of the alphabet
Strings(alphabet, n) == UNION {[1..k -> alphabet] : k \in 0..n}

LitAlphabet == {"0", "1", ".", "-", "e", "a", " "}

Literal(text) == El("ogc", "Literal", text, NoAttrib, <<>>)

PropertyName(text) == El("ogc", "PropertyName", text, NoAttrib, <<>>)

\* the leaves of a comparison, the literals of a text of at most n characters
LeafNodes(n) ==
    {Literal(t) : t \in Strings(LitAlphabet, n) \cup {NoneT}}
        \cup {PropertyName(t) : t \in {NoneT, <<"a">>, <<"p", "o", "p">>}}
        \cup {El("ogc", "Function", NoneT, NoAttrib, <<>>)}

BinOp(tag, kids) == El("ogc", tag, NoneT, NoAttrib, kids)

Boundary(tag, kids) == El("ogc", tag, NoneT, NoAttrib, kids)

Between(name, lo, hi) ==
    El("ogc", "PropertyIsBetween", NoneT, NoAttrib,
       <<PropertyName(name), Boundary("LowerBoundary", <<Literal(lo)>>),
         Boundary("UpperBoundary", <<Literal(hi)>>)>>)

CmpA == BinOp("PropertyIsGreaterThan", <<PropertyName(<<"a">>), Literal(<<"1">>)>>)

CmpB == BinOp("PropertyIsLessThan", <<PropertyName(<<"b">>), Literal(<<"2">>)>>)

CmpC == BinOp("PropertyIsEqualTo", <<PropertyName(<<"c">>), Literal(<<"x">>)>>)

\* the well-formed comparisons
GoodComparisons ==
    {CmpA, CmpB, CmpC,
     BinOp("PropertyIsNotEqualTo", <<PropertyName(<<"a">>), Literal(<<"0", "7">>)>>),
     BinOp("PropertyIsEqualTo", <<Literal(<<"1">>), PropertyName(<<"a">>)>>)}

BetweenNodes ==
    {Between(n, lo, hi) : n \in {<<"a">>, <<"b">>},
                          lo \in {<<"1">>, <<"x">>}, hi \in {<<"2">>, <<"0", "2">>}}
        \cup {El("ogc", "PropertyIsBetween", NoneT, NoAttrib,
                 <<PropertyName(<<"a">>), Boundary("LowerBoundary", <<Literal(<<"1">>)>>)>>),
              El("ogc", "PropertyIsBetween", NoneT, NoAttrib,
                 <<Boundary("LowerBoundary", <<Literal(<<"1">>)>>),
                   Boundary("UpperBoundary", <<Literal(<<"2">>)>>)>>),
              El("ogc", "PropertyIsBetween", NoneT, NoAttrib,
                 <<PropertyName(<<"a">>), Boundary("LowerBoundary", <<>>),
                   Boundary("UpperBoundary", <<Literal(<<"2">>)>>)>>)}

\* predicates the compiler rejects, or reads in a way of its own
OddPredicates ==
    {BinOp("PropertyIsLike", <<PropertyName(<<"a">>), Literal(<<"x">>)>>),
     BinOp("PropertyIsGreaterThanOrEqualTo", <<PropertyName(<<"a">>), Literal(<<"1">>)>>),
     BinOp("PropertyIsLessThanOrEqualTo", <<>>),
     BinOp("PropertyIsGreaterThan", <<PropertyName(<<"a">>)>>),
     BinOp("PropertyIsLessThan", <<PropertyName(<<"a">>), Literal(<<"1">>), Literal(<<"2">>)>>),
     BinOp("PropertyIsEqualTo", <<PropertyName(<<"a">>), El("ogc", "Function", NoneT, NoAttrib, <<>>)>>),
     BinOp("PropertyIsEqualTo", <<PropertyName(<<"a">>), Literal(NoneT)>>)}

\* the leaves of the And/Or trees
TreeLeaves == {CmpA, CmpB, CmpC, BinOp("PropertyIsLike", <<PropertyName(<<"a">>), Literal(<<"x">>)>>)}

\* And/Or trees of depth at most d over TreeLeaves, each node of at most MaxArity children
RECURSIVE Trees(_)
Trees(d) ==
    IF d = 0 THEN TreeLeaves
    ELSE LET sub == Trees(d - 1)
         IN  sub \cup {BinOp(op, kids) : op \in {"And", "Or"},
                                         kids \in UNION {[1..k -> sub] : k \in 0..MaxArity}}

Predicates(d) == Trees(d) \cup GoodComparisons \cup BetweenNodes \cup OddPredicates

Filter(kids) == El("ogc", "Filter", NoneT, NoAttrib, kids)

FilterNodes(d) == {Filter(<<p>>) : p \in Predicates(d)} \cup {Filter(<<>>), Filter(<<CmpA, CmpB>>)}

-----------------------------------------------------------------------------
(* Inputs of the symbolizer translators and of the rule assembler *)

Sld(tag, kids) == El("sld", tag, NoneT, NoAttrib, kids)

Css(name, text) == El("sld", "CssParameter", text, [name |-> name], <<>>)

Stroke(csss) == Sld("Stroke", csss)

DashAlphabet == {"1", "2", " ", "."}

DashTexts(n) == Strings(DashAlphabet, n) \cup {NoneT}

Dash(text) == Css("stroke-dasharray", text)

StrokeCss ==
    {Css("stroke", <<"b", "l", "a", "c", "k">>), Css("stroke-width", <<"2">>), Css("stroke-width", <<"w">>),
     Css("stroke-opacity", <<".", "5">>), Css("stroke-linecap", <<"s", "q", "u", "a", "r", "e">>),
     Css("stroke-join", <<"b", "e", "v", "e", "l">>), Css("stroke-linejoin", <<"r", "o", "u", "n", "d">>),
     Css("stroke-dashoffset", <<"1">>), Css("stroke-dashoffset", NoneT),
     Css("stroke-foobar", <<"1">>), El("sld", "CssParameter", <<"1">>, NoAttrib, <<>>),
     Dash(<<"1", " ", "2">>), Dash(<<"2", " ", "1", " ", "1">>)}

\* strokes of one dash array of at most len characters, and of at most n CssParameters
StrokeNodes(len, n) ==
    {Stroke(<<Dash(t)>>) : t \in DashTexts(len)}
        \cup {Stroke(csss) : csss \in UNION {[1..k -> StrokeCss] : k \in 0..n}}

GoodStroke == Stroke(<<Css("stroke", <<"b", "l", "a", "c", "k">>), Css("stroke-width", <<"2">>)>>)

GoodFill == Sld("Fill", <<Css("fill", <<"#", "f", "0", "0">>), Css("fill-opacity", <<".", "5">>)>>)

Font == Sld("Font", <<Css("font-family", <<"A">>), Css("font-size", <<"1", "2", ".", "5">>)>>)

TextFill == Sld("Fill", <<Css("fill", <<"#", "f", "0", "0">>)>>)

PropertyLabel == Sld("Label", <<PropertyName(<<"n">>)>>)

PlainLabel == El("sld", "Label", <<"n", " ", "x">>, NoAttrib, <<>>)

Halo == Sld("Halo", <<El("sld", "Radius", <<"2">>, NoAttrib, <<>>), TextFill>>)

LabelPlacement == Sld("LabelPlacement", <<Sld("LinePlacement", <<>>)>>)

\* TextSymbolizer nodes with Label, Font and Fill
TextSymbolizers ==
    {Sld("TextSymbolizer", <<PropertyLabel, Font, TextFill>>),
     Sld("TextSymbolizer", <<PlainLabel, Font, TextFill, Halo, LabelPlacement>>)}

ColorMapEntry(attrib) == El("sld", "ColorMapEntry", NoneT, attrib, <<>>)

ColorMap(attrib, entries) == El("sld", "ColorMap", NoneT, attrib, entries)

GoodEntries ==
    <<ColorMapEntry([color |-> <<"#", "f", "0", "0">>, quantity |-> <<"1">>]),
      ColorMapEntry([color |-> <<"b", "l", "a", "c", "k">>, quantity |-> <<"2", ".", "5">>, opacity |-> <<".", "5">>,
                     label |-> <<"h">>])>>

\* symbolizer children the translators accept
GoodSymbolizers ==
    {Sld("LineSymbolizer", <<GoodStroke>>),
     Sld("LineSymbolizer", <<Stroke(<<Dash(<<"1", " ", "2">>)>>)>>),
     Sld("PolygonSymbolizer", <<GoodFill>>),
     Sld("PolygonSymbolizer", <<GoodFill, GoodStroke>>),
     Sld("PolygonSymbolizer", <<>>),
     Sld("PointSymbolizer", <<>>),
     Sld("RasterSymbolizer", <<>>),
     Sld("RasterSymbolizer", <<ColorMap(NoAttrib, GoodEntries)>>),
     Sld("RasterSymbolizer", <<ColorMap([type |-> "values"], GoodEntries)>>)}

\* symbolizer children with a fatal condition
FatalSymbolizers ==
    {Sld("LineSymbolizer", <<Stroke(<<Css("stroke-foobar", <<"1">>)>>)>>),
     Sld("LineSymbolizer", <<Stroke(<<Dash(<<"2", " ", "1", " ", "1">>)>>)>>),
     Sld("PolygonSymbolizer", <<Sld("Fill", <<Css("fill-foobar", <<"1">>)>>)>>),
     Sld("PolygonSymbolizer", <<GoodFill, Stroke(<<Css("stroke-foobar", <<"1">>)>>)>>),
     Sld("RasterSymbolizer", <<ColorMap([type |-> "gradient"], GoodEntries)>>)}

\* children of a rule for which no translator is registered
OtherChildren ==
    {Sld("ImageSymbolizer", <<GoodStroke>>),
     El("x", "LineSymbolizer", NoneT, NoAttrib, <<Stroke(<<Css("stroke-foobar", <<"1">>)>>)>>),
     El("sld", "Title", <<"t">>, NoAttrib, <<>>)}

RuleChildren == GoodSymbolizers \cup FatalSymbolizers \cup TextSymbolizers \cup OtherChildren

GoodFilter == Filter(<<CmpA>>)

FilterParts ==
    {<<>>, <<GoodFilter>>, <<Filter(<<BinOp("PropertyIsLike", <<PropertyName(<<"a">>), Literal(<<"x">>)>>)>>)>>,
     <<Filter(<<BinOp("PropertyIsGreaterThan", <<PropertyName(<<"a">>)>>)>>)>>}

ElseParts == {<<>>, <<Sld("ElseFilter", <<>>)>>}

HeadParts ==
    {<<>>,
     <<El("sld", "Name", <<"r">>, NoAttrib, <<>>),
       El("sld", "MaxScaleDenominator", <<"1", "e", "1">>, NoAttrib, <<>>),
       El("sld", "MinScaleDenominator", <<"1">>, NoAttrib, <<>>)>>,
     <<El("sld", "MinScaleDenominator", <<"x">>, NoAttrib, <<>>)>>}

Rule(nsmap, kids) == El("sld", "Rule", NoneT, [nsmap |-> nsmap], kids)

\* rules of at most n children after the filter, and rules with a head
RuleNodes(n) ==
    {Rule(ns, h \o f \o e \o syms) :
        ns \in {{"sld", "ogc"}}, h \in {<<>>}, f \in FilterParts, e \in ElseParts,
        syms \in UNION {[1..k -> RuleChildren] : k \in 0..n}}
      \cup {Rule(ns, h \o f \o e \o <<sym>>) :
               ns \in {{"sld"}, {"sld", "ogc"}}, h \in HeadParts, f \in FilterParts,
               e \in ElseParts, sym \in {Sld("PointSymbolizer", <<>>)}}

-----------------------------------------------------------------------------
(* Inputs of main: documents, options and the files of the datasource *)

SldOgc == {"sld", "ogc"}

Named(name) == El("sld", "Name", name, NoAttrib, <<>>)

GoodRule == Rule(SldOgc, <<Sld("PointSymbolizer", <<>>)>>)

\* rules with one of the fatal conditions: a filter predicate the compiler does
\* not know, a comparison of one operand, a dash array of odd length, a Stroke
\* and a Fill CssParameter of an unknown name, a colormap of an unknown type
FatalRules ==
    {Rule(SldOgc, <<Filter(<<BinOp("PropertyIsLike", <<PropertyName(<<"a">>), Literal(<<"x">>)>>)>>),
                    Sld("PointSymbolizer", <<>>)>>),
     Rule(SldOgc, <<Filter(<<BinOp("PropertyIsGreaterThan", <<PropertyName(<<"a">>)>>)>>),
                    Sld("PointSymbolizer", <<>>)>>),
     Rule(SldOgc, <<Sld("LineSymbolizer", <<Stroke(<<Dash(<<"2", " ", "1", " ", "1">>)>>)>>)>>),
     Rule(SldOgc, <<Sld("LineSymbolizer", <<Stroke(<<Css("stroke-foobar", <<"1">>)>>)>>)>>),
     Rule(SldOgc, <<Sld("PolygonSymbolizer", <<Sld("Fill", <<Css("fill-foobar", <<"1">>)>>)>>)>>),
     Rule(SldOgc, <<Sld("RasterSymbolizer", <<ColorMap([type |-> "gradient"], GoodEntries)>>)>>)}

FeatureTypeStyle(name, rules) == Sld("FeatureTypeStyle", name \o rules)

UnnamedStyle == FeatureTypeStyle(<<>>, <<GoodRule>>)

NamedStyle == FeatureTypeStyle(<<Named(<<"s">>)>>, <<GoodRule, GoodRule>>)

\* styles whose translation fails: after a good rule one of the fatal rules,
\* a rule the Text translator fails on, and a style without rules
BadStyles ==
    {FeatureTypeStyle(<<>>, <<GoodRule, r>>) : r \in FatalRules}
        \cup {FeatureTypeStyle(<<>>, <<Rule(SldOgc, <<Sld("TextSymbolizer", <<PlainLabel, Font, TextFill>>)>>)>>),
              FeatureTypeStyle(<<>>, <<>>)}

\* the lists of UserStyle elements that hold n styles of the set in all
RECURSIVE UserStyles(_, _)
UserStyles(n, styles) ==
    IF n = 0 THEN {<<>>}
    ELSE UNION {{<<Sld("UserStyle", fs)>> \o rest : fs \in [1..k -> styles], rest \in UserStyles(n - k, styles)} :
                    k \in 1..n}

LayerNames == {<<>>, <<Named(<<"r">>)>>}

\* the lists of at most maxLayers layers that hold at most n styles of the set in all
RECURSIVE LayerLists(_, _, _)
LayerLists(n, maxLayers, styles) ==
    IF maxLayers = 0 \/ n = 0 THEN {<<>>}
    ELSE {<<>>} \cup
         UNION {{<<Sld("NamedLayer", name \o body)>> \o rest :
                     name \in LayerNames, body \in UserStyles(k, styles),
                     rest \in LayerLists(n - k, maxLayers - 1, styles)} :
                    k \in 1..n}

Document(kids) == El("sld", "StyledLayerDescriptor", NoneT, NoAttrib, kids)

\* the roads and water layers, one unnamed style each
RoadsAndWater ==
    Document(<<Sld("NamedLayer", <<Named(<<"r", "o", "a", "d", "s">>), Sld("UserStyle", <<UnnamedStyle>>)>>),
               Sld("NamedLayer", <<Named(<<"w", "a", "t", "e", "r">>), Sld("UserStyle", <<UnnamedStyle>>)>>)>>)

\* a UserLayer before a NamedLayer, styles with a Name among those without
UserAndNamedLayers ==
    Document(<<Sld("UserLayer", <<Named(<<"u">>), Sld("UserStyle", <<NamedStyle, UnnamedStyle>>),
                                  Sld("UserStyle", <<UnnamedStyle>>)>>),
               Sld("NamedLayer", <<Sld("UserStyle", <<UnnamedStyle, NamedStyle>>)>>),
               Sld("UserLayer", <<Sld("UserStyle", <<UnnamedStyle>>)>>)>>)

\* documents whose layers lack a level of the tree, or are no layers
StuntedDocuments ==
    {Document(<<Sld("NamedLayer", <<Named(<<"r">>)>>)>>),
     Document(<<Sld("UserLayer", <<Sld("UserStyle", <<UnnamedStyle>>)>>), Sld("UserLayer", <<Sld("UserStyle", <<>>)>>)>>),
     Document(<<Sld("Title", <<>>)>>)}

\* documents of at most maxLayers layers and n styles, the styles good ones
\* and at most one kind of bad style
Documents(n, maxLayers) ==
    {Document(ls) : ls \in UNION {LayerLists(n, maxLayers, {UnnamedStyle, bad}) : bad \in BadStyles}}
        \cup {RoadsAndWater, UserAndNamedLayers} \cup StuntedDocuments

FewDocuments ==
    {RoadsAndWater, UserAndNamedLayers, Document(<<>>),
     Document(<<Sld("UserLayer", <<Sld("UserStyle", <<UnnamedStyle, FeatureTypeStyle(<<>>, <<>>)>>)>>)>>)}

PyInt(n) == <<"int", n>>

\* the options of the command line: --datasource and --srid, None when not given
Options ==
    [datasource : {NoneT, <<>>, <<"r", ".", "s", "h", "p">>, <<"s", "h", "p">>, <<"r", ".", "t", "x", "t">>},
     srid : {NoneT, PyInt(4326)}]

NoOptions == [datasource |-> NoneT, srid |-> NoneT]

NoPrj == [exists |-> FALSE, proj4 |-> <<>>, morphed |-> <<>>]

PrjFiles ==
    {NoPrj,
     [exists |-> TRUE, proj4 |-> <<"+", "p">>, morphed |-> <<"+", "p">>],
     [exists |-> TRUE, proj4 |-> <<>>, morphed |-> <<"+", "q">>],
     [exists |-> TRUE, proj4 |-> <<>>, morphed |-> <<>>]}

-----------------------------------------------------------------------------
(* A single call of one function of the module *)

MainIdle ==
    /\ options = NoValue
    /\ prj = NoValue
    /\ root = NoValue
    /\ layers = <<>>
    /\ m = NoValue
    /\ datasource = NoValue
    /\ output = NoValue
    /\ err = NoValue

MainUnchanged == UNCHANGED <<options, prj, root, layers, m, datasource, output, err>>

InitLiteral == pc = "call" /\ arg \in LeafNodes(MaxLitLen) /\ ret = NoValue /\ MainIdle

TranslateLeaf ==
    /\ pc = "call"
    /\ ret' = _translate_literal_or_property_name(arg)
    /\ pc' = "returned"
    /\ UNCHANGED arg
    /\ MainUnchanged

NextLiteral == TranslateLeaf

SpecLiteral == InitLiteral /\ [][NextLiteral]_vars

InitFilter == pc = "call" /\ arg \in FilterNodes(MaxDepth) /\ ret = NoValue /\ MainIdle

CompileFilter ==
    /\ pc = "call"
    /\ ret' = ogc_filter_to_mapnik(arg)
    /\ pc' = "returned"
    /\ UNCHANGED arg
    /\ MainUnchanged

NextFilter == CompileFilter

SpecFilter == InitFilter /\ [][NextFilter]_vars

InitStroke == pc = "call" /\ arg \in StrokeNodes(MaxDashLen, MaxCss) /\ ret = NoValue /\ MainIdle

BuildStroke ==
    /\ pc = "call"
    /\ ret' = stroke_to_mapnik(arg)
    /\ pc' = "returned"
    /\ UNCHANGED arg
    /\ MainUnchanged

NextStroke == BuildStroke

SpecStroke == InitStroke /\ [][NextStroke]_vars

InitRule == pc = "call" /\ arg \in RuleNodes(MaxChildren) /\ ret = NoValue /\ MainIdle

TranslateRule ==
    /\ pc = "call"
    /\ ret' = ogc_rule_to_mapnik(arg)
    /\ pc' = "returned"
    /\ UNCHANGED arg
    /\ MainUnchanged

NextRule == TranslateRule

SpecRule == InitRule /\ [][NextRule]_vars

-----------------------------------------------------------------------------
(* main *)

Init ==
    /\ pc = "start"
    /\ \/ options \in Options /\ prj \in PrjFiles /\ root \in FewDocuments
       \/ options = NoOptions /\ prj = NoPrj /\ root \in Documents(MaxStyles, MaxLayers)
    /\ layers = <<>>
    /\ m = NoValue
    /\ datasource = NoValue
    /\ output = NoValue
    /\ err = NoValue
    /\ arg = NoValue
    /\ ret = NoValue

\* main up to the end of the block on a shapefile datasource
Start ==
    /\ pc = "start"
    /\ IF options.datasource # NoneT /\ options.datasource # <<>> /\ EndsWithShp(options.datasource)
       THEN /\ datasource' = Shapefile(SplitShp(options.datasource))
            /\ LET srid == GlobalValue("srid")
                   srs == proj4_from_osr(prj)
               IN  IF ~srid.ok
                   THEN m' = NewMap /\ pc' = "aborted" /\ err' = srid.err
                   ELSE /\ m' = IF srid.val # NoneT
                                 THEN [NewMap EXCEPT !.srs = <<"+", "i", "n", "i", "t", "=", "e", "p", "s", "g", ":">>
                                                                \o IntToStr(srid.val[2])]
                                 ELSE IF srs # NoneT /\ srs # <<>> THEN [NewMap EXCEPT !.srs = srs]
                                 ELSE NewMap
                        /\ pc' = "collect"
                        /\ UNCHANGED err
       ELSE /\ datasource' = options.datasource
            /\ m' = NewMap
            /\ pc' = "collect"
            /\ UNCHANGED err
    /\ UNCHANGED <<options, prj, root, layers, output, arg, ret>>

\* layers = root.NamedLayer + root.UserLayer, each when the root has one
CollectLayers ==
    /\ pc = "collect"
    /\ layers' = Children(root, "NamedLayer") \o Children(root, "UserLayer")
    /\ pc' = "loop"
    /\ UNCHANGED <<options, prj, root, m, datasource, output, err, arg, ret>>

\* one turn of the loop over the layers; the layers done are those of the map
TranslateLayer ==
    /\ pc = "loop"
    /\ Len(m.layers) < Len(layers)
    /\ LET turn == main_layer(m, datasource, layers[Len(m.layers) + 1])
       IN  /\ m' = turn.val
           /\ IF turn.ok THEN UNCHANGED <<pc, err>> ELSE pc' = "aborted" /\ err' = turn.err
    /\ UNCHANGED <<options, prj, root, layers, datasource, output, arg, ret>>

\* the print of the map, after the loop; FIX_HEX is False
Save ==
    /\ pc = "loop"
    /\ Len(m.layers) = Len(layers)
    /\ ~FIX_HEX
    /\ output' = save_map_to_string(m)
    /\ pc' = "done"
    /\ UNCHANGED <<options, prj, root, layers, m, datasource, err, arg, ret>>

Next == Start \/ CollectLayers \/ TranslateLayer \/ Save

Spec == Init /\ [][Next]_vars

-----------------------------------------------------------------------------
(* Claims about the expression compiler *)

LiteralReturned == pc = "returned" /\ arg.tag = "Literal"

\* the text parses as a number and does not begin with "0"
PlainNumber(text) == text # NoneT /\ float(text).ok /\ ~StartsWith(text, "0")

Quoted(text) == <<"'">> \o text \o <<"'">>

\* C4: a Literal whose text parses as a number and does not begin with "0" is
\* emitted unquoted as written, every other Literal is emitted in single
\* quotes, and compiling a Literal never fails.
C4_LiteralQuotingNeverFails ==
    LiteralReturned =>
        /\ ret.ok
        /\ ret.val = IF PlainNumber(arg.text) THEN arg.text ELSE Quoted(arg.text)

\* The part of C4 the code keeps: the quoting rule, for a Literal that has text.
LiteralQuotingOfText ==
    (LiteralReturned /\ arg.text # NoneT) =>
        /\ ret.ok
        /\ ret.val = IF PlainNumber(arg.text) THEN arg.text ELSE Quoted(arg.text)

\* The failing case of C4: a Literal without text raises TypeError.
EmptyLiteralRaises == (LiteralReturned /\ arg.text = NoneT) => ret = Raise("TypeError")

\* the logical structure of an expression string, "and" binding tighter than
\* "or": a comparison is [op |-> "cmp"] with its tokens, a connective has its
\* operands in args; a connective of one operand is that operand
Comparison(tokens) == [op |-> "cmp", args |-> <<>>, text |-> tokens]

Connective(op, args) == IF Len(args) = 1 THEN args[1] ELSE [op |-> op, args |-> args, text |-> <<>>]

ParseTerm(tokens) ==
    LET factors == Split(tokens, <<"a", "n", "d">>)
    IN  Connective("and", [i \in 1..Len(factors) |-> Comparison(factors[i])])

ParseExpression(str) ==
    LET terms == Split(Split(str, " "), <<"o", "r">>)
    IN  Connective("or", [i \in 1..Len(terms) |-> ParseTerm(terms[i])])

IsGoodComparison(node) == node \in GoodComparisons

RECURSIVE IsAndOrTree(_)
IsAndOrTree(node) ==
    IF node.tag \in {"And", "Or"}
    THEN node.kids # <<>> /\ \A i \in 1..Len(node.kids) : IsAndOrTree(node.kids[i])
    ELSE IsGoodComparison(node)

\* the structure of a filter tree, nested connectives of one kind read as one
RECURSIVE Structure(_)
Structure(node) ==
    IF node.tag \in {"And", "Or"}
    THEN LET op == IF node.tag = "And" THEN "and" ELSE "or"
             subs == [i \in 1..Len(node.kids) |-> Structure(node.kids[i])]
             flat == Concat([i \in 1..Len(subs) |->
                                IF subs[i].op = op THEN subs[i].args ELSE <<subs[i]>>])
         IN  Connective(op, flat)
    ELSE Comparison(Split(_ogc_filter_to_expression(node).val, " "))

\* C3: the compiled string of a tree of And/Or nodes over comparisons, read
\* with the usual precedence of "and" over "or", has the operator nesting and
\* the operand order of the tree.
C3_AndOrStructurePreserved ==
    (pc = "returned" /\ Len(arg.kids) = 1 /\ IsAndOrTree(arg.kids[1])) =>
        /\ ret.ok
        /\ ParseExpression(ret.val) = Structure(arg.kids[1])

RECURSIVE NoOrUnderAnd(_)
NoOrUnderAnd(node) ==
    /\ node.tag = "And" =>
           \A i \in 1..Len(node.kids) :
               node.kids[i].tag = "Or" => Len(node.kids[i].kids) = 1 /\ node.kids[i].kids[1].tag # "Or"
    /\ \A i \in 1..Len(node.kids) : NoOrUnderAnd(node.kids[i])

\* What the code keeps of C3: the structure survives when no Or of several
\* operands stands under an And, the case that would need parentheses.
AndOrStructurePreservedWithoutOrUnderAnd ==
    (pc = "returned" /\ Len(arg.kids) = 1 /\ IsAndOrTree(arg.kids[1])
        /\ NoOrUnderAnd(arg.kids[1])) =>
        /\ ret.ok
        /\ ParseExpression(ret.val) = Structure(arg.kids[1])

IsBetween(node) ==
    /\ node.tag = "PropertyIsBetween"
    /\ Len(node.kids) = 3
    /\ node.kids[1].tag = "PropertyName"
    /\ node.kids[2].tag = "LowerBoundary" /\ Len(node.kids[2].kids) = 1
    /\ node.kids[3].tag = "UpperBoundary" /\ Len(node.kids[3].kids) = 1

RenderedLiteral(text) == IF PlainNumber(text) THEN text ELSE Quoted(text)

\* C5: PropertyIsBetween(n, lo, hi) compiles to the comparison "[n] > lo", the
\* token "and" and the comparison "[n] < hi", in this order, as separate
\* tokens of the expression.
C5_BetweenTwoComparisonsJoinedByAnd ==
    (pc = "returned" /\ Len(arg.kids) = 1 /\ IsBetween(arg.kids[1])) =>
        LET prop == arg.kids[1]
            n == <<"[">> \o prop.kids[1].text \o <<"]">>
            lo == RenderedLiteral(prop.kids[2].kids[1].text)
            hi == RenderedLiteral(prop.kids[3].kids[1].text)
        IN  /\ ret.ok
            /\ Split(ret.val, " ") = <<n, <<">">>, lo, <<"a", "n", "d">>, n, <<"<">>, hi>>

\* What the code emits for C5: the lower comparison, "and " with no space
\* before it, the upper comparison.
BetweenAsCompiled ==
    (pc = "returned" /\ Len(arg.kids) = 1 /\ IsBetween(arg.kids[1])) =>
        LET prop == arg.kids[1]
            n == <<"[">> \o prop.kids[1].text \o <<"]">>
            lo == RenderedLiteral(prop.kids[2].kids[1].text)
            hi == RenderedLiteral(prop.kids[3].kids[1].text)
        IN  /\ ret.ok
            /\ ret.val = n \o <<" ", ">", " ">> \o lo \o <<"a", "n", "d", " ">>
                            \o n \o <<" ", "<", " ">> \o hi

-----------------------------------------------------------------------------
(* Claims about the Stroke builder *)

\* the stroke's only CssParameter is a stroke-dasharray with text
OnlyDashArray(stroke) ==
    /\ Len(stroke.kids) = 1
    /\ stroke.kids[1].tag = "CssParameter"
    /\ "name" \in DOMAIN stroke.kids[1].attrib
    /\ stroke.kids[1].attrib["name"] = "stroke-dasharray"
    /\ stroke.kids[1].text # NoneT

\* the entries of a dash array, separated by single spaces
Entries(text) == Split(Strip(text), " ")

AllNumbers(entries) == \A i \in 1..Len(entries) : float(entries[i]).ok

OddDashArrayRefused ==
    /\ pc = "returned" /\ OnlyDashArray(arg) /\ AllNumbers(Entries(arg.kids[1].text))
    /\ Len(Entries(arg.kids[1].text)) = 3
    /\ ~ret.ok

-----------------------------------------------------------------------------
(* Claims about the rule assembler *)

HasFilter(rule) == \E i \in 1..Len(rule.kids) : rule.kids[i].tag = "Filter" /\ rule.kids[i].ns = "ogc"

HasElseFilter(rule) ==
    \E i \in 1..Len(rule.kids) : rule.kids[i].tag = "ElseFilter" /\ rule.kids[i].ns = "sld"

\* C2: a translated rule never has both a filter and the else flag: a Filter
\* child gives a filter and no else flag, an ElseFilter child without a Filter
\* child gives the else flag and no filter, neither child gives neither.
C2_FilterXorElse ==
    (pc = "returned" /\ ret.ok) =>
        /\ ~(ret.val.filter # NoneT /\ ret.val.else_filter)
        /\ HasFilter(arg) => (ret.val.filter # NoneT /\ ~ret.val.else_filter)
        /\ (~HasFilter(arg) /\ HasElseFilter(arg)) => (ret.val.filter = NoneT /\ ret.val.else_filter)
        /\ (~HasFilter(arg) /\ ~HasElseFilter(arg)) => (ret.val.filter = NoneT /\ ~ret.val.else_filter)

C2_FilterAndElseFilterTranslated ==
    /\ pc = "returned" /\ ret.ok
    /\ HasFilter(arg) /\ HasElseFilter(arg)
    /\ ret.val.filter = <<"[", "a", "]", " ", ">", " ", "1">>

\* one of the five registered symbolizer tags
Registered(node) ==
    /\ node.ns = "sld"
    /\ node.tag \in {"LineSymbolizer", "PolygonSymbolizer", "PointSymbolizer",
                      "TextSymbolizer", "RasterSymbolizer"}

RegisteredChildren(rule) == SelectSeq(rule.kids, Registered)

\* a symbolizer child no translator is registered for
Unregistered(node) == Contains(node.tag, "Symbolizer") /\ ~Registered(node)

\* C7: a symbolizer child that is not one of the five registered tags is
\* skipped and never fails the translation; the rule's symbol list is the
\* concatenation, in document order, of what the translators yield for the
\* registered children, at most two symbolizers a child.
C7_UnregisteredSkipped ==
    pc = "returned" =>
        LET registered == RegisteredChildren(arg)
            yields == [i \in 1..Len(registered) |-> Translate(registered[i])]
        IN  /\ ~ret.ok => \/ ~rule_filter(arg).ok
                           \/ ~ScaleDenominator(arg, "MaxScaleDenominator", Float(0)).ok
                           \/ ~ScaleDenominator(arg, "MinScaleDenominator", Float(0)).ok
                           \/ \E i \in 1..Len(registered) : ~yields[i].ok
            /\ ret.ok =>
                   /\ ret.val.symbols = Concat([i \in 1..Len(registered) |-> yields[i].val])
                   /\ Len(ret.val.symbols) <= 2 * Len(registered)

C7_SkippedBesideTranslated ==
    /\ pc = "returned" /\ ret.ok
    /\ \E i \in 1..Len(arg.kids) : Unregistered(arg.kids[i]) /\ arg.kids[i].tag = "LineSymbolizer"
    /\ Len(RegisteredChildren(arg)) = 1
    /\ Len(ret.val.symbols) = 2

IsTextSymbolizer(node) ==
    /\ node.ns = "sld" /\ node.tag = "TextSymbolizer"
    /\ HasChild(node, "Label") /\ HasChild(node, "Font") /\ HasChild(node, "Fill")

\* a rule without Filter and scale bounds whose children are TextSymbolizers
OnlyTextSymbolizers(rule) ==
    /\ "ogc" \in rule.attrib["nsmap"]
    /\ rule.kids # <<>>
    /\ \A i \in 1..Len(rule.kids) : IsTextSymbolizer(rule.kids[i])

\* C10: a TextSymbolizer with Label, Font and Fill translates, and appends
\* exactly one Text symbolizer to the rule's symbol list.
C10_OneTextSymbolizer ==
    (pc = "returned" /\ OnlyTextSymbolizers(arg)) =>
        /\ ret.ok
        /\ Len(ret.val.symbols) = Len(arg.kids)
        /\ \A i \in 1..Len(ret.val.symbols) : ret.val.symbols[i].type = "TextSymbolizer"

\* What the code does for C10: a rule with a TextSymbolizer that has a Label
\* is never translated, the translator raises NameError.
TextSymbolizerRaises ==
    (pc = "returned" /\ OnlyTextSymbolizers(arg)) => ret = Raise("NameError")

-----------------------------------------------------------------------------
(* Claims about the layer assembler and main *)

\* the FeatureTypeStyle elements of a layer, in document order
FeatureStylesOf(layer) ==
    LET user_styles == SelectSeq(layer.kids, LAMBDA k : k.tag = "UserStyle")
    IN  Concat([u \in 1..Len(user_styles) |->
                   SelectSeq(user_styles[u].kids, LAMBDA k : k.tag = "FeatureTypeStyle")])

Unnamed(node) == \A i \in 1..Len(node.kids) : node.kids[i].tag # "Name"

\* the number of styles of the layers before the i-th
RECURSIVE StylesBefore(_)
StylesBefore(i) == IF i <= 1 THEN 0 ELSE StylesBefore(i - 1) + Len(FeatureStylesOf(layers[i - 1]))

\* C1 as stated: the index of the default style names runs on from one layer
\* of the document to the next: the k-th FeatureTypeStyle of the whole
\* document, counted from 0, is named "<its layer's name> k" when it has no Name.
C1_StyleIndexSharedAcrossLayers ==
    pc \in {"loop", "done", "aborted"} =>
        \A i \in 1..Len(m.layers) :
            LET fts == FeatureStylesOf(layers[i])
            IN  \A k \in 1..Len(fts) :
                    Unnamed(fts[k]) =>
                        m.layers[i].styles[k] =
                            m.layers[i].name \o <<" ">> \o IntToStr(StylesBefore(i) + k - 1)

\* What the code does for C1: the index starts at 0 in every layer: the k-th
\* FeatureTypeStyle of a layer, counted from 0 through the layer's UserStyles,
\* is named "<the layer's name> k" when it has no Name, and by its Name when
\* it has one.
C1_StyleIndexPerLayer ==
    pc \in {"loop", "done", "aborted"} =>
        \A i \in 1..Len(m.layers) :
            LET fts == FeatureStylesOf(layers[i])
            IN  /\ Len(m.layers[i].styles) = Len(fts)
                /\ \A k \in 1..Len(fts) :
                       m.layers[i].styles[k] =
                           IF Unnamed(fts[k]) THEN m.layers[i].name \o <<" ">> \o IntToStr(k - 1)
                           ELSE NameOf(fts[k])

C1_RoadsAndWaterBothStartAtZero ==
    /\ pc = "done"
    /\ Len(m.layers) = 2
    /\ m.layers[1].styles = <<<<"r", "o", "a", "d", "s", " ", "0">>>>
    /\ m.layers[2].styles = <<<<"w", "a", "t", "e", "r", " ", "0">>>>

\* the index goes on from one UserStyle of a layer to the next
IndexRunsThroughUserStyles ==
    /\ pc = "done"
    /\ \E i \in 1..Len(layers) :
           /\ Len(SelectSeq(layers[i].kids, LAMBDA k : k.tag = "UserStyle")) = 2
           /\ m.layers[i].styles = <<<<"r", " ", "0">>, <<"r", " ", "1">>>>

\* the Rule elements of the document's layers
RulesOf(doc) ==
    LET lyrs == SelectSeq(doc.kids, LAMBDA k : k.tag \in {"NamedLayer", "UserLayer"})
        fts == Concat([i \in 1..Len(lyrs) |-> FeatureStylesOf(lyrs[i])])
    IN  Concat([i \in 1..Len(fts) |-> SelectSeq(fts[i].kids, LAMBDA k : k.tag = "Rule")])

HasFatalRule(doc) == \E i \in 1..Len(RulesOf(doc)) : RulesOf(doc)[i] \in FatalRules

\* C6: when a rule of a layer of the document has a fatal condition, the loop
\* over the layers never comes to its end, nothing is printed and the run
\* never completes, however many layers were translated before.
C6_NoMapAfterFatalRule ==
    HasFatalRule(root) =>
        /\ output = NoValue
        /\ pc # "done"
        /\ pc = "loop" => Len(m.layers) < Len(layers)

C6_AbortedAfterATranslatedLayer ==
    /\ HasFatalRule(root)
    /\ pc = "aborted"
    /\ err = "Exception"
    /\ Len(m.layers) = 1
    /\ Len(m.styles) >= 1
    /\ Len(layers) = 2
    /\ output = NoValue

\* the spatial reference C9 states for a shapefile datasource
StatedSrs ==
    IF options.srid # NoneT
    THEN <<"+", "i", "n", "i", "t", "=", "e", "p", "s", "g", ":">> \o IntToStr(options.srid[2])
    ELSE IF prj.exists /\ prj.proj4 \o prj.morphed # <<>>
    THEN (IF prj.proj4 # <<>> THEN prj.proj4 ELSE prj.morphed)
    ELSE DefaultSrs

ShapefileGiven == options.datasource # NoneT /\ EndsWithShp(options.datasource)

\* C9: with a datasource of the shapefile suffix the build completes, and the
\* map and every layer have the spatial reference "+init=epsg:<srid>" when an
\* srid is given, else the projection derived from the datasource when there
\* is one, else the default.
C9_ShapefileBuildCompletes ==
    (ShapefileGiven /\ pc \in {"done", "aborted"}) =>
        /\ pc = "done"
        /\ m.srs = StatedSrs
        /\ \A i \in 1..Len(m.layers) : m.layers[i].srs = StatedSrs

\* What the code does for C9: with a datasource of the shapefile suffix main
\* raises NameError on the name srid, before it looks at the document.
ShapefileRaisesNameError ==
    (ShapefileGiven /\ pc # "start") =>
        pc = "aborted" /\ err = "NameError" /\ output = NoValue /\ layers = <<>>

=============================================================================
